---------------------------- MODULE Spec2Model ----------------------------
(***************************************************************************)
(* Agent Adam: the command interpretation pipeline (CommandProcessor),     *)
(* the channel formatter (GHLIntegration), the Chat widget of the         *)
(* frontend, the AgentAdam actor, and the frontend's ICPService with the   *)
(* application's processCommand that calls it.                             *)
(*                                                                         *)
(* A Motoko Text that the code tokenises or searches (an instruction and   *)
(* every word derived from it) is a sequence of one-character strings, so  *)
(* that lower-casing, splitting, size and substring search are computed.   *)
(* A Text that the code only measures and concatenates (the fields of an   *)
(* ExecutionResult and the formatter's templates) is a TLA+ string.        *)
(* A Float confidence is the exact rational [num, den] of the sum the code *)
(* forms; the comparison with 1.0 is made on the rational.                 *)
(***************************************************************************)
EXTENDS Integers, Sequences, FiniteSets, TLC

VARIABLES
    calls,              \* the interpretCommand invocations made so far, oldest first
    responses,          \* the formatter invocations made so far, oldest first
    children,           \* Chat: the child elements of the messages container
    messageIdCounter,   \* Chat: this.messageIdCounter
    typingIndicatorId,  \* Chat: this.typingIndicatorId
    issued,             \* Chat: the renderMessage calls made so far, oldest first
    clearedAt,          \* Chat: the length of issued at the last clearMessages
    lastCall,           \* Chat: the method called last
    commands,           \* actor: the commands map
    results,            \* actor: the results map
    pending,            \* actor: the self-calls of processCommand not yet run
    now,                \* actor: the value of Time.now()
    processLog,         \* actor: the processCommand runs so far, oldest first
    preferences,        \* actor: the preferences map
    commandHistory,     \* actor: the stable array of the commands
    executionResults,   \* actor: the stable array of the results
    userPreferences,    \* actor: the stable array of the preferences
    phase,              \* actor: "running", or "upgrading" between the two hooks
    beforeUpgrade,      \* actor: the three maps as the last preupgrade found them
    isInitialized,      \* ICPService: this.isInitialized
    actorCreated,       \* ICPService: this.actor is not null
    serviceCalls        \* ICPService: the processCommand calls, oldest first

pipelineVars == <<calls, responses>>

chatVars ==
    <<children, messageIdCounter, typingIndicatorId, issued, clearedAt, lastCall>>

upgradeVars ==
    <<preferences, commandHistory, executionResults, userPreferences, phase,
      beforeUpgrade>>

actorVars == <<commands, results, pending, now, processLog, upgradeVars>>

serviceVars == <<isInitialized, actorCreated, serviceCalls>>

vars == <<pipelineVars, chatVars, actorVars, serviceVars>>

----------------------------------------------------------------------------
(* Bounds of the explored inputs.                                          *)

MaxWords == 2       \* tokens in a generated instruction
MaxPriority == 4    \* largest context.priority
MaxInsights == 2    \* entries of an ExecutionResult's insights
MaxNextSteps == 2   \* entries of an ExecutionResult's nextSteps
MaxActions == 1     \* entries of an ExecutionResult's actions
MaxMessages == 4    \* messages rendered by the Chat widget
MaxCommands == 3    \* processCommand runs of the actor, pending ones included
MaxTime == 1        \* largest value of Time.now()
MaxUpgrades == 1    \* upgrades of the actor

----------------------------------------------------------------------------
(* mo:base/Text on character sequences.                                    *)

UpperCase == <<"A","B","C","D","E","F","G","H","I","J","K","L","M",
               "N","O","P","Q","R","S","T","U","V","W","X","Y","Z">>
LowerCase == <<"a","b","c","d","e","f","g","h","i","j","k","l","m",
               "n","o","p","q","r","s","t","u","v","w","x","y","z">>

\* The lower-case letter of every upper-case letter.
LowerOf ==
    [c \in { UpperCase[i] : i \in 1..Len(UpperCase) } |->
        LowerCase[CHOOSE i \in 1..Len(UpperCase) : UpperCase[i] = c]]

toLowerChar(c) == IF c \in DOMAIN LowerOf THEN LowerOf[c] ELSE c

toLowercase(t) == [i \in 1..Len(t) |-> toLowerChar(t[i])]

\* Text.contains(t, #text p)
contains(t, p) ==
    \E i \in 0..(Len(t) - Len(p)) : SubSeq(t, i + 1, i + Len(p)) = p

\* The fields of a non-empty remainder: the text up to the first separator,
\* then the fields of what follows it (one empty field when nothing follows).
RECURSIVE splitFields(_, _)
splitFields(t, sep) ==
    IF \E i \in 1..Len(t) : t[i] = sep
    THEN LET i == CHOOSE k \in 1..Len(t) :
                      t[k] = sep /\ \A j \in 1..(k - 1) : t[j] # sep
         IN  <<SubSeq(t, 1, i - 1)>> \o splitFields(SubSeq(t, i + 1, Len(t)), sep)
    ELSE <<t>>

\* Text.split(t, #char sep): the empty text has no field.
split(t, sep) == IF t = <<>> THEN <<>> ELSE splitFields(t, sep)

\* Text.trim(t, #char ch)
RECURSIVE trimStart(_, _)
trimStart(t, ch) ==
    IF t # <<>> /\ Head(t) = ch THEN trimStart(Tail(t), ch) ELSE t

RECURSIVE trimEnd(_, _)
trimEnd(t, ch) ==
    IF t # <<>> /\ t[Len(t)] = ch THEN trimEnd(SubSeq(t, 1, Len(t) - 1), ch) ELSE t

trim(t, ch) == trimEnd(trimStart(t, ch), ch)

\* Array.find(xs, p) != null, and the element found
InArray(x, xs) == \E i \in 1..Len(xs) : xs[i] = x

----------------------------------------------------------------------------
(* CommandProcessor: vocabularies.                                         *)

stopWords == <<
    <<"t","h","e">>, <<"a">>, <<"a","n">>, <<"a","n","d">>, <<"o","r">>, <<"b","u","t">>,
    <<"i","n">>, <<"o","n">>, <<"a","t">>, <<"t","o">>, <<"f","o","r">>, <<"o","f">>,
    <<"w","i","t","h">>, <<"b","y">>, <<"f","r","o","m">>, <<"u","p">>, <<"a","b","o","u","t">>,
    <<"i","n","t","o">>, <<"t","h","r","o","u","g","h">>, <<"d","u","r","i","n","g">>,
    <<"b","e","f","o","r","e">>, <<"a","f","t","e","r">>, <<"a","b","o","v","e">>,
    <<"b","e","l","o","w">>, <<"b","e","t","w","e","e","n">>, <<"a","m","o","n","g">>,
    <<"i","s">>, <<"a","r","e">>, <<"w","a","s">>, <<"w","e","r","e">>, <<"b","e">>,
    <<"b","e","e","n">>, <<"b","e","i","n","g">>, <<"h","a","v","e">>, <<"h","a","s">>,
    <<"h","a","d">>, <<"d","o">>, <<"d","o","e","s">>, <<"d","i","d">>, <<"w","i","l","l">>,
    <<"w","o","u","l","d">>, <<"c","o","u","l","d">>, <<"s","h","o","u","l","d">>,
    <<"m","a","y">>, <<"m","i","g","h","t">>, <<"m","u","s","t">>, <<"c","a","n">> >>

ghlEntities == <<
    <<"c","o","n","t","a","c","t">>, <<"l","e","a","d">>,
    <<"o","p","p","o","r","t","u","n","i","t","y">>, <<"p","i","p","e","l","i","n","e">>,
    <<"w","o","r","k","f","l","o","w">>, <<"c","a","m","p","a","i","g","n">>,
    <<"a","p","p","o","i","n","t","m","e","n","t">>, <<"c","a","l","e","n","d","a","r">>,
    <<"f","o","r","m">>, <<"f","u","n","n","e","l">>, <<"w","e","b","s","i","t","e">>,
    <<"a","u","t","o","m","a","t","i","o","n">>, <<"t","a","g">>,
    <<"t","r","i","g","g","e","r">>, <<"a","c","t","i","o","n">>, <<"e","m","a","i","l">>,
    <<"s","m","s">>, <<"c","a","l","l">>, <<"t","a","s","k">>, <<"n","o","t","e">>,
    <<"i","n","v","o","i","c","e">>, <<"p","a","y","m","e","n","t">>,
    <<"s","u","b","s","c","r","i","p","t","i","o","n">>, <<"l","o","c","a","t","i","o","n">>,
    <<"u","s","e","r">>, <<"a","g","e","n","c","y">> >>

createKeywords == <<
    <<"c","r","e","a","t","e">>, <<"b","u","i","l","d">>, <<"m","a","k","e">>, <<"a","d","d">>,
    <<"n","e","w">>, <<"g","e","n","e","r","a","t","e">>, <<"s","e","t","u","p">>,
    <<"s","t","a","r","t">> >>

updateKeywords == <<
    <<"u","p","d","a","t","e">>, <<"m","o","d","i","f","y">>, <<"c","h","a","n","g","e">>,
    <<"e","d","i","t">>, <<"r","e","v","i","s","e">>, <<"a","l","t","e","r">>,
    <<"a","d","j","u","s","t">> >>

deleteKeywords == <<
    <<"d","e","l","e","t","e">>, <<"r","e","m","o","v","e">>, <<"c","a","n","c","e","l">>,
    <<"s","t","o","p">>, <<"e","n","d">>, <<"t","e","r","m","i","n","a","t","e">>,
    <<"c","l","e","a","r">> >>

queryKeywords == <<
    <<"s","h","o","w">>, <<"g","e","t">>, <<"l","i","s","t">>, <<"f","i","n","d">>,
    <<"s","e","a","r","c","h">>, <<"v","i","e","w">>, <<"d","i","s","p","l","a","y">>,
    <<"c","h","e","c","k">> >>

automationKeywords == <<
    <<"a","u","t","o","m","a","t","e">>, <<"t","r","i","g","g","e","r">>,
    <<"a","c","t","i","v","a","t","e">>, <<"s","c","h","e","d","u","l","e">>, <<"s","e","t">>,
    <<"c","o","n","f","i","g","u","r","e">> >>

filterWords == <<
    <<"t","o","d","a","y">>, <<"y","e","s","t","e","r","d","a","y">>, <<"w","e","e","k">>,
    <<"m","o","n","t","h">>, <<"a","c","t","i","v","e">>, <<"i","n","a","c","t","i","v","e">>,
    <<"n","e","w">>, <<"o","l","d">> >>

triggerTypes == <<
    <<"e","m","a","i","l">>, <<"f","o","r","m">>, <<"w","e","b","h","o","o","k">>,
    <<"s","c","h","e","d","u","l","e">>, <<"t","a","g">>, <<"s","t","a","t","u","s">> >>

timeWords == <<
    <<"t","o","d","a","y">>, <<"t","o","m","o","r","r","o","w">>,
    <<"y","e","s","t","e","r","d","a","y">>, <<"w","e","e","k">>, <<"m","o","n","t","h">>,
    <<"y","e","a","r">> >>

numberWords == <<
    <<"1">>, <<"2">>, <<"5">>, <<"1","0">> >>

criticalObjects == <<
    <<"w","o","r","k","f","l","o","w">>, <<"c","a","m","p","a","i","g","n">>,
    <<"a","u","t","o","m","a","t","i","o","n">> >>

ApprovalPriority == 3

----------------------------------------------------------------------------
(* CommandProcessor: the pipeline.                                         *)

isStopWord(word) == InArray(word, stopWords)

\* Mutant: the stop words stay among the keywords.
extractKeywords_KeepsStopWords(instruction) ==
    LET words == split(toLowercase(instruction), " ")
        cleanWords == [i \in 1..Len(words) |-> trim(words[i], " ")]
    IN  SelectSeq(cleanWords, LAMBDA w : Len(w) > 2)

\* Mutant: a word of two characters is long enough.
extractKeywords_KeepsTwoCharacters(instruction) ==
    LET words == split(toLowercase(instruction), " ")
        cleanWords == [i \in 1..Len(words) |-> trim(words[i], " ")]
    IN  SelectSeq(cleanWords, LAMBDA w : Len(w) >= 2 /\ ~isStopWord(w))

extractKeywords(instruction) ==
    LET words == split(toLowercase(instruction), " ")
        cleanWords == [i \in 1..Len(words) |-> trim(words[i], " ")]
    IN  SelectSeq(cleanWords, LAMBDA w : Len(w) > 2 /\ ~isStopWord(w))

hasAnyKeyword(words, keywords) ==
    \E i \in 1..Len(words) : InArray(words[i], keywords)

\* The first element of words that is in vocabulary, else the default.
FirstIn(words, vocabulary, default) ==
    IF \E i \in 1..Len(words) : InArray(words[i], vocabulary)
    THEN words[CHOOSE i \in 1..Len(words) :
                   /\ InArray(words[i], vocabulary)
                   /\ \A j \in 1..(i - 1) : ~InArray(words[j], vocabulary)]
    ELSE default

findGHLEntity(words) == FirstIn(words, ghlEntities, <<"u","n","k","n","o","w","n">>)

\* Mutant: the id pattern is looked for before the quote.
extractIdentifier_IdFirst(instruction) ==
    IF contains(instruction, <<"i","d",":">>) THEN <<"e","x","t","r","a","c","t","e","d","_","i","d">>
    ELSE IF contains(instruction, <<"\"">>) THEN <<"q","u","o","t","e","d","_","i","d","e","n","t","i","f","i","e","r">>
    ELSE <<"a","u","t","o","_","d","e","t","e","c","t","e","d">>

extractIdentifier(instruction) ==
    IF contains(instruction, <<"\"">>) THEN <<"q","u","o","t","e","d","_","i","d","e","n","t","i","f","i","e","r">>
    ELSE IF contains(instruction, <<"i","d",":">>) THEN <<"e","x","t","r","a","c","t","e","d","_","i","d">>
    ELSE <<"a","u","t","o","_","d","e","t","e","c","t","e","d">>

extractFilters(words) == SelectSeq(words, LAMBDA w : InArray(w, filterWords))

\* Mutant: the last matching keyword instead of the first.
findTriggerType_LastMatch(words) ==
    IF \E i \in 1..Len(words) : InArray(words[i], triggerTypes)
    THEN words[CHOOSE i \in 1..Len(words) :
                   /\ InArray(words[i], triggerTypes)
                   /\ \A j \in (i + 1)..Len(words) : ~InArray(words[j], triggerTypes)]
    ELSE <<"m","a","n","u","a","l">>

findTriggerType(words) == FirstIn(words, triggerTypes, <<"m","a","n","u","a","l">>)

extractConditions(instruction) ==
       (IF contains(instruction, <<"w","h","e","n">>) THEN <<<<"c","o","n","d","i","t","i","o","n","a","l">>>> ELSE <<>>)
    \o (IF contains(instruction, <<"i","f">>) THEN <<<<"c","o","n","d","i","t","i","o","n","a","l">>>> ELSE <<>>)
    \o (IF contains(instruction, <<"a","f","t","e","r">>) THEN <<<<"t","e","m","p","o","r","a","l">>>> ELSE <<>>)
    \o (IF contains(instruction, <<"b","e","f","o","r","e">>) THEN <<<<"t","e","m","p","o","r","a","l">>>> ELSE <<>>)

\* Mutant: the Delete family is checked before Create and Update.
detectIntent_DeleteFirst(words, instruction) ==
    LET lowerInstruction == toLowercase(instruction)
    IN  IF hasAnyKeyword(words, deleteKeywords)
        THEN [tag |-> "Delete", objectType |-> findGHLEntity(words),
              identifier |-> extractIdentifier(lowerInstruction)]
        ELSE IF hasAnyKeyword(words, createKeywords)
        THEN [tag |-> "Create", objectType |-> findGHLEntity(words)]
        ELSE IF hasAnyKeyword(words, updateKeywords)
        THEN [tag |-> "Update", objectType |-> findGHLEntity(words),
              identifier |-> extractIdentifier(lowerInstruction)]
        ELSE IF hasAnyKeyword(words, queryKeywords)
        THEN [tag |-> "Query", objectType |-> findGHLEntity(words),
              filters |-> extractFilters(words)]
        ELSE IF hasAnyKeyword(words, automationKeywords)
        THEN [tag |-> "Automation", triggerType |-> findTriggerType(words),
              conditions |-> extractConditions(lowerInstruction)]
        ELSE [tag |-> "Unknown"]

detectIntent(words, instruction) ==
    LET lowerInstruction == toLowercase(instruction)
    IN  IF hasAnyKeyword(words, createKeywords)
        THEN [tag |-> "Create", objectType |-> findGHLEntity(words)]
        ELSE IF hasAnyKeyword(words, updateKeywords)
        THEN [tag |-> "Update", objectType |-> findGHLEntity(words),
              identifier |-> extractIdentifier(lowerInstruction)]
        ELSE IF hasAnyKeyword(words, deleteKeywords)
        THEN [tag |-> "Delete", objectType |-> findGHLEntity(words),
              identifier |-> extractIdentifier(lowerInstruction)]
        ELSE IF hasAnyKeyword(words, queryKeywords)
        THEN [tag |-> "Query", objectType |-> findGHLEntity(words),
              filters |-> extractFilters(words)]
        ELSE IF hasAnyKeyword(words, automationKeywords)
        THEN [tag |-> "Automation", triggerType |-> findTriggerType(words),
              conditions |-> extractConditions(lowerInstruction)]
        ELSE [tag |-> "Unknown"]

\* One entity per word of words that is in vocabulary, in the order of words.
EntitiesOf(words, vocabulary, type, conf) ==
    LET hits == SelectSeq(words, LAMBDA w : InArray(w, vocabulary))
    IN  [i \in 1..Len(hits) |->
            [entityType |-> type, value |-> hits[i], confidence |-> conf]]

\* Mutant: one pass over the keywords, each word giving its entity in place.
extractEntities_SinglePass(words, instruction) ==
    LET hits == SelectSeq(words, LAMBDA w : \/ InArray(w, ghlEntities)
                                            \/ InArray(w, timeWords)
                                            \/ InArray(w, numberWords))
    IN  [i \in 1..Len(hits) |->
            IF InArray(hits[i], ghlEntities)
            THEN [entityType |-> "ghl_object", value |-> hits[i], confidence |-> 9]
            ELSE IF InArray(hits[i], timeWords)
            THEN [entityType |-> "time_reference", value |-> hits[i], confidence |-> 8]
            ELSE [entityType |-> "number", value |-> hits[i], confidence |-> 7]]

\* Three passes over the keywords: objects, then time references, then numbers.
\* The entity confidences 0.9, 0.8 and 0.7 are kept in tenths.
extractEntities(words, instruction) ==
       EntitiesOf(words, ghlEntities, "ghl_object", 9)
    \o EntitiesOf(words, timeWords, "time_reference", 8)
    \o EntitiesOf(words, numberWords, "number", 7)

\* Mutant: the Unknown case keeps the initial 0.3 instead of assigning 0.1.
calculateConfidence_UnknownKeepsInitial(intent, entities, words) ==
    LET baseTenths == IF intent.tag = "Unknown" THEN 3 ELSE 6
        entityCount == Len(entities)
        wordCount == Len(words)
        ghlEntityCount ==
            Len(SelectSeq(entities, LAMBDA e : e.entityType = "ghl_object"))
        den == IF wordCount > 0 THEN 10 * wordCount ELSE 10
        num == IF wordCount > 0
               THEN (baseTenths + entityCount) * wordCount + 2 * ghlEntityCount
               ELSE baseTenths + entityCount
    IN  IF num > den THEN [num |-> den, den |-> den] ELSE [num |-> num, den |-> den]

\* Mutant: the sum is returned without the cap at 1.0.
calculateConfidence_NoCap(intent, entities, words) ==
    LET baseTenths == IF intent.tag = "Unknown" THEN 1 ELSE 6
        entityCount == Len(entities)
        wordCount == Len(words)
        ghlEntityCount ==
            Len(SelectSeq(entities, LAMBDA e : e.entityType = "ghl_object"))
        den == IF wordCount > 0 THEN 10 * wordCount ELSE 10
        num == IF wordCount > 0
               THEN (baseTenths + entityCount) * wordCount + 2 * ghlEntityCount
               ELSE baseTenths + entityCount
    IN  [num |-> num, den |-> den]

\* Mutant: the density counts every entity, not only the ghl objects.
calculateConfidence_DensityOfAllEntities(intent, entities, words) ==
    LET baseTenths == IF intent.tag = "Unknown" THEN 1 ELSE 6
        entityCount == Len(entities)
        wordCount == Len(words)
        den == IF wordCount > 0 THEN 10 * wordCount ELSE 10
        num == IF wordCount > 0
               THEN (baseTenths + entityCount) * wordCount + 2 * entityCount
               ELSE baseTenths + entityCount
    IN  IF num > den THEN [num |-> den, den |-> den] ELSE [num |-> num, den |-> den]

\* base + 0.1 * entities + 0.2 * (ghl objects / words), in tenths over the
\* word count, capped at 1.
calculateConfidence(intent, entities, words) ==
    LET baseTenths == IF intent.tag = "Unknown" THEN 1 ELSE 6
        entityCount == Len(entities)
        wordCount == Len(words)
        ghlEntityCount ==
            Len(SelectSeq(entities, LAMBDA e : e.entityType = "ghl_object"))
        den == IF wordCount > 0 THEN 10 * wordCount ELSE 10
        num == IF wordCount > 0
               THEN (baseTenths + entityCount) * wordCount + 2 * ghlEntityCount
               ELSE baseTenths + entityCount
    IN  IF num > den THEN [num |-> den, den |-> den] ELSE [num |-> num, den |-> den]

\* Mutant: deletions fall through to the priority rule.
shouldRequireApproval_DeleteByPriority(intent, context) ==
    CASE intent.tag = "Create" -> InArray(intent.objectType, criticalObjects)
      [] intent.tag = "Automation" -> TRUE
      [] OTHER -> context.priority >= ApprovalPriority

\* Mutant: automations fall through to the priority rule.
shouldRequireApproval_AutomationByPriority(intent, context) ==
    CASE intent.tag = "Delete" -> TRUE
      [] intent.tag = "Create" -> InArray(intent.objectType, criticalObjects)
      [] OTHER -> context.priority >= ApprovalPriority

\* Mutant: a high-priority Create requires approval as well.
shouldRequireApproval_CreateByPriority(intent, context) ==
    CASE intent.tag = "Delete" -> TRUE
      [] intent.tag = "Create" ->
             \/ InArray(intent.objectType, criticalObjects)
             \/ context.priority >= ApprovalPriority
      [] intent.tag = "Automation" -> TRUE
      [] OTHER -> context.priority >= ApprovalPriority

\* Mutant: the priority threshold is exclusive.
shouldRequireApproval_Exclusive(intent, context) ==
    CASE intent.tag = "Delete" -> TRUE
      [] intent.tag = "Create" -> InArray(intent.objectType, criticalObjects)
      [] intent.tag = "Automation" -> TRUE
      [] OTHER -> context.priority > ApprovalPriority

\* Mutant: a retried command requires approval.
shouldRequireApproval_OnRetry(intent, context) ==
    CASE intent.tag = "Delete" -> TRUE
      [] intent.tag = "Create" -> InArray(intent.objectType, criticalObjects)
      [] intent.tag = "Automation" -> TRUE
      [] OTHER -> context.priority >= ApprovalPriority \/ context.retryCount > 0

shouldRequireApproval(intent, context) ==
    CASE intent.tag = "Delete" -> TRUE
      [] intent.tag = "Create" -> InArray(intent.objectType, criticalObjects)
      [] intent.tag = "Automation" -> TRUE
      [] OTHER -> context.priority >= ApprovalPriority

interpretCommand(instruction, context) ==
    LET words == extractKeywords(instruction)
        intent == detectIntent(words, instruction)
        entities == extractEntities(words, instruction)
        confidence == calculateConfidence(intent, entities, words)
        requiresApproval == shouldRequireApproval(intent, context)
    IN  [intent |-> intent, entities |-> entities,
         confidence |-> confidence, requiresApproval |-> requiresApproval]

----------------------------------------------------------------------------
(* GHLIntegration: the chat formatter.                                     *)

RECURSIVE join(_, _)
\* Text.join(sep, texts.vals())
join(sep, texts) ==
    IF texts = <<>> THEN ""
    ELSE IF Len(texts) = 1 THEN texts[1]
    ELSE texts[1] \o sep \o join(sep, Tail(texts))

\* The three emoji of the chat templates, as ASCII stand-ins.
CheckMark == "(check)"
CrossMark == "(cross)"
Hourglass == "(hourglass)"

QuickReplyLimit == 30

defaultQuickReplies == <<"Got it!", "Tell me more", "What's next?">>

getSuccessTemplate(channel) ==
    CASE channel = "voice" -> "Great! I've completed that task for you."
      [] channel = "chat" -> CheckMark \o " Done! Your request has been processed successfully."
      [] channel = "admin" -> "Task completed successfully. Check the details below."
      [] OTHER -> "Request processed successfully."

getErrorTemplate(channel, error) ==
    CASE channel = "voice" -> "I'm sorry, I encountered an issue: " \o error
      [] channel = "chat" -> CrossMark \o " Oops! Something went wrong: " \o error
      [] channel = "admin" -> "Error: " \o error
      [] OTHER -> "Error: " \o error

generateChatMessage(result) ==
    CASE result.status.tag = "Completed" ->
             CheckMark \o " " \o getSuccessTemplate("chat") \o "\n\n"
                 \o join("\n", result.insights)
      [] result.status.tag = "Failed" ->
             getErrorTemplate("chat", result.status.reason)
      [] OTHER -> Hourglass \o " Processing your request..."

\* Mutant: an entry of exactly QuickReplyLimit characters is kept.
generateQuickReplies_Inclusive(nextSteps) ==
    LET replies == SelectSeq(nextSteps, LAMBDA step : Len(step) <= QuickReplyLimit)
    IN  IF Len(replies) = 0 THEN defaultQuickReplies ELSE replies

generateQuickReplies(nextSteps) ==
    LET replies == SelectSeq(nextSteps, LAMBDA step : Len(step) < QuickReplyLimit)
    IN  IF Len(replies) = 0 THEN defaultQuickReplies ELSE replies

\* Mutant: a finished command closes the chat.
shouldCloseChat_WhenCompleted(result) == result.status.tag = "Completed"

shouldCloseChat(result) == FALSE

formatChatResponse(result) ==
    [message |-> generateChatMessage(result),
     quickReplies |-> generateQuickReplies(result.nextSteps),
     attachments |-> <<>>,
     shouldClose |-> shouldCloseChat(result)]

\* The null of an optional Text.
NullText == "null"

----------------------------------------------------------------------------
(* GHLIntegration: the voice formatter and the workflow decision.          *)

generateVoiceActions(actions) ==
    [i \in 1..Len(actions) |->
        CASE actions[i].actionType = "create_contact" -> "contact_created"
          [] actions[i].actionType = "send_email" -> "email_sent"
          [] actions[i].actionType = "schedule_appointment" -> "appointment_scheduled"
          [] actions[i].actionType = "update_opportunity" -> "opportunity_updated"
          [] OTHER -> "action_completed"]

\* Mutant: every status that is not Failed speaks the first insight.
generateSpokenText_InsightUnlessFailed(result) ==
    CASE result.status.tag = "Failed" ->
             "I'm sorry, but I encountered an issue: " \o result.status.reason
      [] OTHER ->
             IF Len(result.insights) > 0 THEN result.insights[1]
             ELSE "I've completed your request successfully."

generateSpokenText(result) ==
    CASE result.status.tag = "Completed" ->
             IF Len(result.insights) > 0 THEN result.insights[1]
             ELSE "I've completed your request successfully."
      [] result.status.tag = "Failed" ->
             "I'm sorry, but I encountered an issue: " \o result.status.reason
      [] result.status.tag = "Processing" ->
             "I'm currently processing your request. Please hold on."
      [] OTHER -> "Your request is being handled."

\* Mutant: a partial success ends the call as well.
shouldEndVoiceCall_AlsoPartial(result) ==
    result.status.tag \in {"Failed", "PartialSuccess"}

shouldEndVoiceCall(result) == result.status.tag = "Failed"

TransferNumber == "+1234567890"

getTransferNumber(result) ==
    IF \E i \in 1..Len(result.actions) :
           result.actions[i].actionType = "transfer_to_human"
    THEN TransferNumber
    ELSE NullText

formatVoiceResponse(result) ==
    [spokenText |-> generateSpokenText(result),
     actions |-> generateVoiceActions(result.actions),
     shouldEndCall |-> shouldEndVoiceCall(result),
     transferNumber |-> getTransferNumber(result)]

formatExecutionStatus(status) ==
    CASE status.tag = "Pending" -> "pending"
      [] status.tag = "Processing" -> "processing"
      [] status.tag = "Completed" -> "completed"
      [] status.tag = "Failed" -> "failed"
      [] status.tag = "PartialSuccess" -> "partial_success"

Digits == <<"0", "1", "2", "3", "4", "5", "6", "7", "8", "9">>

RECURSIVE natToText(_)
\* Nat.toText: the decimal digits, most significant first
natToText(n) ==
    IF n < 10 THEN Digits[n + 1]
    ELSE natToText(n \div 10) \o Digits[(n % 10) + 1]

\* Mutant: the duration is left out of the variables.
generateWorkflowVariables_WithoutDuration(result) ==
    << <<"execution_status", formatExecutionStatus(result.status)>>,
       <<"command_id", result.commandId>> >>

generateWorkflowVariables(result) ==
    << <<"execution_status", formatExecutionStatus(result.status)>>,
       <<"command_id", result.commandId>>,
       <<"duration", natToText(result.duration)>> >>

\* Mutant: a partial success lets the workflow continue.
generateWorkflowDecision_PartialContinues(result) ==
    CASE result.status.tag \in {"Completed", "PartialSuccess"} ->
             [decision |-> "continue", nextStep |-> "next",
              variables |-> generateWorkflowVariables(result)]
      [] result.status.tag = "Failed" ->
             [decision |-> "stop", nextStep |-> "error", variables |-> <<>>]
      [] OTHER ->
             [decision |-> "wait", nextStep |-> "pending", variables |-> <<>>]

generateWorkflowDecision(result) ==
    CASE result.status.tag = "Completed" ->
             [decision |-> "continue", nextStep |-> "next",
              variables |-> generateWorkflowVariables(result)]
      [] result.status.tag = "Failed" ->
             [decision |-> "stop", nextStep |-> "error", variables |-> <<>>]
      [] OTHER ->
             [decision |-> "wait", nextStep |-> "pending", variables |-> <<>>]

----------------------------------------------------------------------------
(* The inputs explored.                                                    *)

\* Tokens an instruction is built from: keywords of every intent family
\* (one capitalised, one that is also a CRM object, one that is also a
\* trigger type and one that is also a filter word), CRM objects, a time
\* word, a condition word, a stop word, a number and the empty token (two
\* adjacent spaces).
Vocabulary ==
    { <<"c","r","e","a","t","e">>, <<"n","e","w">>, <<"m","o","d","i","f","y">>, <<"d","e","l","e","t","e">>, <<"E","n","d">>, <<"s","h","o","w">>,
      <<"t","r","i","g","g","e","r">>, <<"s","c","h","e","d","u","l","e">>, <<"c","o","n","t","a","c","t">>, <<"w","o","r","k","f","l","o","w">>, <<"f","o","r","m">>,
      <<"t","o","d","a","y">>, <<"w","h","e","n">>, <<"t","h","e">>, <<"1","0">>, <<>> }

RECURSIVE joinWords(_)
\* The instruction made of the tokens ws separated by single spaces.
joinWords(ws) ==
    IF ws = <<>> THEN <<>>
    ELSE IF Len(ws) = 1 THEN ws[1]
    ELSE ws[1] \o <<" ">> \o joinWords(Tail(ws))

createContactJane == <<"c","r","e","a","t","e"," ","a"," ","n","e","w"," ","c","o","n","t","a","c","t"," ","n","a","m","e","d"," ","J","a","n","e">>
deleteOpportunity == <<"d","e","l","e","t","e"," ","t","h","e"," ","o","p","p","o","r","t","u","n","i","t","y">>
scheduleAutomation == <<"s","c","h","e","d","u","l","e"," ","a","n"," ","a","u","t","o","m","a","t","i","o","n"," ","w","h","e","n"," ","a"," ","f","o","r","m"," ","i","s"," ","s","u","b","m","i","t","t","e","d">>
triggerWorkflowContact == <<"t","r","i","g","g","e","r"," ","w","o","r","k","f","l","o","w"," ","c","o","n","t","a","c","t">>
scheduleNotification == <<"s","c","h","e","d","u","l","e"," ","a"," ","n","o","t","i","f","i","c","a","t","i","o","n"," ","w","h","e","n"," ","a"," ","f","o","r","m"," ","i","s"," ","s","u","b","m","i","t","t","e","d">>
scheduleAfterBefore == <<"s","c","h","e","d","u","l","e"," ","e","m","a","i","l"," ","a","f","t","e","r"," ","s","i","g","n","u","p"," ","b","e","f","o","r","e"," ","r","e","n","e","w","a","l">>

modifyContactUpperId == <<"m","o","d","i","f","y"," ","c","o","n","t","a","c","t"," ","I","D",":","7">>
removeLeadQuotedId == <<"r","e","m","o","v","e"," ","l","e","a","d"," ","\"","x","\""," ","i","d",":","7">>

ScenarioInstructions ==
    { createContactJane, deleteOpportunity, scheduleAutomation,
      triggerWorkflowContact, <<"c","r","e","a","t","e"," ","c","a","m","p","a","i","g","n">>, <<"a","d","d"," ","a","u","t","o","m","a","t","i","o","n">>,
      <<"m","o","d","i","f","y"," ","c","o","n","t","a","c","t"," ","i","d",":","7">>, <<"r","e","m","o","v","e"," ","l","e","a","d"," ","\"","x","\"">>,
      scheduleNotification, scheduleAfterBefore,
      modifyContactUpperId, removeLeadQuotedId, <<"S","h","o","w"," ","T","H","E"," ","c","o","n","t","a","c","t"," ","C","o","n","t","a","c","t">> }

Instructions ==
    { joinWords(ws) : ws \in UNION { [1..n -> Vocabulary] : n \in 0..MaxWords } }
        \cup ScenarioInstructions

Contexts ==
    [locationId : {"loc_1", "loc_2"},
     sourceMetadata : {NullText, "meta"},
     priority : 0..MaxPriority,
     retryCount : {0, 1}]

\* Instructions of the two-invocation specification: one per intent and
\* approval rule.
PairInstructions ==
    { <<>>, createContactJane, deleteOpportunity, scheduleAutomation,
      triggerWorkflowContact, <<"c","r","e","a","t","e"," ","w","o","r","k","f","l","o","w">>, <<"m","o","d","i","f","y"," ","c","o","n","t","a","c","t"," ","i","d",":","7">>,
      <<"s","h","o","w"," ","n","e","w"," ","c","o","n","t","a","c","t"," ","t","o","d","a","y">>, <<"c","o","n","t","a","c","t">> }

BoundedSeqs(S, n) == UNION { [1..k -> S] : k \in 0..n }

Statuses ==
    { [tag |-> "Pending"], [tag |-> "Processing"], [tag |-> "Completed"],
      [tag |-> "Failed", reason |-> "timeout"],
      [tag |-> "PartialSuccess", warnings |-> <<"slow">>] }

ExecutedActions ==
    { [actionType |-> "transfer_to_human", description |-> "d",
       result |-> "ok", timestamp |-> 0],
      [actionType |-> "send_email", description |-> "d",
       result |-> "ok", timestamp |-> 0] }

Insights == {"Command processed successfully", "2 contacts updated"}

NextStepTexts ==
    {"Review execution result", "Check the pipeline once a day",
     "Schedule a follow-up next week",
     "Send a follow-up email to the lead"}

ExecutionResults ==
    [commandId : {"cmd_1"},
     status : Statuses,
     actions : BoundedSeqs(ExecutedActions, MaxActions),
     insights : BoundedSeqs(Insights, MaxInsights),
     nextSteps : BoundedSeqs(NextStepTexts, MaxNextSteps),
     duration : {0, 100}]

----------------------------------------------------------------------------
(* The state machine: callers invoke the two entry points.                 *)

Call(instruction, context) ==
    [instruction |-> instruction, context |-> context,
     interpretation |-> interpretCommand(instruction, context)]

\* A caller invokes interpretCommand on one of the given instructions.
InterpretCommand(instructions) ==
    /\ calls = <<>>
    /\ \E instruction \in instructions, context \in Contexts :
           calls' = <<Call(instruction, context)>>
    /\ UNCHANGED <<responses, chatVars, actorVars, serviceVars>>

\* A caller invokes interpretCommand after an earlier invocation returned.
InterpretCommandAgain(instructions) ==
    /\ Len(calls) = 1
    /\ \E instruction \in instructions, context \in Contexts :
           calls' = Append(calls, Call(instruction, context))
    /\ UNCHANGED <<responses, chatVars, actorVars, serviceVars>>

\* A caller invokes formatChatResponse.
FormatChatResponse ==
    /\ responses = <<>>
    /\ \E result \in ExecutionResults :
           responses' = <<[channel |-> "chat", result |-> result,
                           response |-> formatChatResponse(result)]>>
    /\ UNCHANGED <<calls, chatVars, actorVars, serviceVars>>

\* A caller invokes formatVoiceResponse.
FormatVoiceResponse ==
    /\ responses = <<>>
    /\ \E result \in ExecutionResults :
           responses' = <<[channel |-> "voice", result |-> result,
                           response |-> formatVoiceResponse(result)]>>
    /\ UNCHANGED <<calls, chatVars, actorVars, serviceVars>>

\* A caller invokes generateWorkflowDecision.
GenerateWorkflowDecision ==
    /\ responses = <<>>
    /\ \E result \in ExecutionResults :
           responses' = <<[channel |-> "workflow", result |-> result,
                           response |-> generateWorkflowDecision(result)]>>
    /\ UNCHANGED <<calls, chatVars, actorVars, serviceVars>>

----------------------------------------------------------------------------
(* The Chat widget (frontend/components/Chat.js).  The messages container  *)
(* is the sequence of its child elements, each with its id and its class   *)
(* name.  The container is part of the document, so getElementById finds a *)
(* child by its id.  A JavaScript null is NullText.                        *)

Senders == {"user", "adam", "system"}

TypingSenders == {"adam", "user"}

\* The options of renderMessage that reach the container.
RenderOptions == [quickReplies : {<<>>, <<"Yes", "No">>}]

messageElement(counter, sender) ==
    [id |-> "msg-" \o natToText(counter),
     className |-> "message message-" \o sender]

quickRepliesElement == [id |-> "", className |-> "quick-replies"]

typingIndicatorElement(sender) ==
    [id |-> "typing-indicator",
     className |-> "typing-indicator typing-" \o sender]

\* document.getElementById(id), then remove(): the first element with the
\* id leaves the container.
removeById(elements, id) ==
    LET hits == { k \in 1..Len(elements) : elements[k].id = id }
    IN  IF hits = {}
        THEN elements
        ELSE LET first == CHOOSE k \in hits : \A j \in hits : k <= j
             IN  [k \in 1..(Len(elements) - 1) |->
                     IF k < first THEN elements[k] ELSE elements[k + 1]]

\* The container and the tracked id after hideTypingIndicator().
hideTypingIndicator(elements, indicatorId) ==
    IF indicatorId # NullText
    THEN [children |-> removeById(elements, indicatorId),
          typingIndicatorId |-> NullText]
    ELSE [children |-> elements, typingIndicatorId |-> indicatorId]

\* The children of the container after renderMessage.
withMessage(elements, counter, sender, options) ==
    IF Len(options.quickReplies) > 0
    THEN elements \o <<messageElement(counter, sender), quickRepliesElement>>
    ELSE Append(elements, messageElement(counter, sender))

\* Mutant: a new indicator is added next to the one already shown.
withTypingIndicator_KeepsShown(elements, indicatorId, sender) ==
    Append(elements, typingIndicatorElement(sender))

\* The children of the container after showTypingIndicator(sender).
withTypingIndicator(elements, indicatorId, sender) ==
    Append(hideTypingIndicator(elements, indicatorId).children,
           typingIndicatorElement(sender))

\* renderMessage(message, sender, timestamp, options)
RenderMessage ==
    /\ Len(issued) < MaxMessages
    /\ \E sender \in Senders, options \in RenderOptions :
           LET counter == messageIdCounter + 1
           IN  /\ messageIdCounter' = counter
               /\ children' = withMessage(children, counter, sender, options)
               /\ issued' = Append(issued, [sender |-> sender, options |-> options])
    /\ lastCall' = "renderMessage"
    /\ UNCHANGED <<typingIndicatorId, clearedAt, pipelineVars, actorVars, serviceVars>>

\* Mutant: the message id counter survives clearMessages.
ClearMessages_KeepCounter ==
    LET hidden == hideTypingIndicator(<<>>, typingIndicatorId)
    IN  /\ children' = hidden.children
        /\ typingIndicatorId' = hidden.typingIndicatorId
        /\ clearedAt' = Len(issued)
        /\ lastCall' = "clearMessages"
        /\ UNCHANGED <<messageIdCounter, issued, pipelineVars, actorVars, serviceVars>>

\* clearMessages()
ClearMessages ==
    LET hidden == hideTypingIndicator(<<>>, typingIndicatorId)
    IN  /\ children' = hidden.children
        /\ messageIdCounter' = 0
        /\ typingIndicatorId' = hidden.typingIndicatorId
        /\ clearedAt' = Len(issued)
        /\ lastCall' = "clearMessages"
        /\ UNCHANGED <<issued, pipelineVars, actorVars, serviceVars>>

\* showTypingIndicator(sender)
ShowTypingIndicator ==
    /\ \E sender \in TypingSenders :
           /\ children' = withTypingIndicator(children, typingIndicatorId, sender)
           /\ typingIndicatorId' = typingIndicatorElement(sender).id
    /\ lastCall' = "showTypingIndicator"
    /\ UNCHANGED <<messageIdCounter, issued, clearedAt, pipelineVars, actorVars, serviceVars>>

\* hideTypingIndicator()
HideTypingIndicator ==
    LET hidden == hideTypingIndicator(children, typingIndicatorId)
    IN  /\ children' = hidden.children
        /\ typingIndicatorId' = hidden.typingIndicatorId
        /\ lastCall' = "hideTypingIndicator"
        /\ UNCHANGED <<messageIdCounter, issued, clearedAt, pipelineVars, actorVars, serviceVars>>

----------------------------------------------------------------------------
(* The AgentAdam actor.  A HashMap is the function from its keys to their  *)
(* values.  A handler that awaits processCommand sends the actor a         *)
(* message and suspends; the message runs later, after any message that    *)
(* was sent before it.  An upgrade runs preupgrade on the old instance,    *)
(* starts the new instance with its transient maps empty and runs          *)
(* postupgrade on it; the actor is stopped first, so no self-call is       *)
(* pending and no message runs between the two hooks.                      *)

\* Mutant: a key that is already stored keeps its value.
put_KeepExisting(map, key, value) ==
    [k \in (DOMAIN map) \cup {key} |-> IF k \in DOMAIN map THEN map[k] ELSE value]

\* HashMap.put(key, value)
put(map, key, value) ==
    [k \in (DOMAIN map) \cup {key} |-> IF k = key THEN value ELSE map[k]]

\* HashMap.size()
size(map) == Cardinality(DOMAIN map)

getTotalCommands == size(commands)

\* The values of an option type: ?value and null.
some(value) == [tag |-> "some", value |-> value]

none == [tag |-> "null"]

\* HashMap.get(key)
get(map, key) == IF key \in DOMAIN map THEN some(map[key]) ELSE none

getExecutionResult(commandId) == get(results, commandId)

\* The orders in which the maps may iterate over the keys: the three maps
\* share the key type, the hash function and the initial capacity, so one
\* order of the keys, whichever it is, serves the three.
IterationOrders(keys) ==
    { f \in [1..Cardinality(keys) -> keys] :
        \A i, j \in 1..Cardinality(keys) : f[i] = f[j] => i = j }

\* Iter.toArray(map.entries()): the pairs of the map, in iteration order.
toArray(map, order) ==
    LET keys == SelectSeq(order, LAMBDA k : k \in DOMAIN map)
    IN  [i \in 1..Len(keys) |-> <<keys[i], map[keys[i]]>>]

\* Mutant: the first pair of the array is not restored.
RECURSIVE fromIter_SkipsFirst(_)
fromIter_SkipsFirst(entries) ==
    IF Len(entries) <= 1 THEN <<>>
    ELSE put(fromIter_SkipsFirst(SubSeq(entries, 1, Len(entries) - 1)),
             entries[Len(entries)][1], entries[Len(entries)][2])

\* HashMap.fromIter(entries.vals(), ...): the pairs are put in order.
RECURSIVE fromIter(_)
fromIter(entries) ==
    IF entries = <<>> THEN <<>>
    ELSE put(fromIter(SubSeq(entries, 1, Len(entries) - 1)),
             entries[Len(entries)][1], entries[Len(entries)][2])

CommandIds == {"cmd_1"}

\* The session, conversation, webhook and user ids of the callers.
CallerIds == {"s1"}

ActorInstructions == {"show contacts", "delete contact"}

LocationIds == {"loc_1"}

\* The commands a caller passes to processCommand itself.
DirectCommands ==
    [id : CommandIds,
     source : {[tag |-> "AdminInterface", userId |-> "s1", locationId |-> "loc_1"]},
     instruction : ActorInstructions,
     context : {[locationId |-> "loc_1", sourceMetadata |-> NullText,
                 priority |-> 0, retryCount |-> 0]},
     timestamp : {0}]

\* The command a handler builds for its caller.
BuiltCommand(callerId, source, instruction, locationId, metadata, priority) ==
    [id |-> callerId \o "_" \o natToText(now),
     source |-> source,
     instruction |-> instruction,
     context |-> [locationId |-> locationId, sourceMetadata |-> metadata,
                  priority |-> priority, retryCount |-> 0],
     timestamp |-> now]

\* Mutant: the result reports a command still in progress.
StubResult_Processing(cmd) ==
    [commandId |-> cmd.id,
     status |-> [tag |-> "Processing"],
     actions |-> <<>>,
     insights |-> <<"Command processed successfully">>,
     nextSteps |-> <<"Review execution result">>,
     duration |-> 100]

\* The result processCommand builds for a command.
StubResult(cmd) ==
    [commandId |-> cmd.id,
     status |-> [tag |-> "Completed"],
     actions |-> <<>>,
     insights |-> <<"Command processed successfully">>,
     nextSteps |-> <<"Review execution result">>,
     duration |-> 100]

\* Mutant: the result is returned and not stored.
processCommand_ResultNotStored(cmd) ==
    /\ commands' = put(commands, cmd.id, cmd)
    /\ results' = results
    /\ processLog' = Append(processLog,
                            [command |-> cmd,
                             reply |-> [tag |-> "ok", value |-> StubResult(cmd)]])

\* The body of processCommand(cmd).
processCommand(cmd) ==
    /\ commands' = put(commands, cmd.id, cmd)
    /\ results' = put(results, cmd.id, StubResult(cmd))
    /\ processLog' = Append(processLog,
                            [command |-> cmd,
                             reply |-> [tag |-> "ok", value |-> StubResult(cmd)]])

\* A handler awaits processCommand(cmd): the self-call is queued.
AwaitProcessCommand(handler, cmd) ==
    /\ pending' = Append(pending, [handler |-> handler, command |-> cmd])
    /\ UNCHANGED <<commands, results, now, processLog, upgradeVars,
                   pipelineVars, chatVars, serviceVars>>

\* A caller invokes processCommand.
ProcessCommand ==
    /\ phase = "running"
    /\ Len(processLog) + Len(pending) < MaxCommands
    /\ \E cmd \in DirectCommands : processCommand(cmd)
    /\ UNCHANGED <<pending, now, upgradeVars, pipelineVars, chatVars, serviceVars>>

\* The oldest queued self-call of processCommand runs.
RunProcessCommand ==
    /\ phase = "running"
    /\ pending # <<>>
    /\ processCommand(Head(pending).command)
    /\ pending' = Tail(pending)
    /\ UNCHANGED <<now, upgradeVars, pipelineVars, chatVars, serviceVars>>

\* handleWebhook(webhookId, eventType, payload, locationId), up to its await
HandleWebhook ==
    /\ phase = "running"
    /\ Len(processLog) + Len(pending) < MaxCommands
    /\ \E webhookId \in CallerIds, eventType \in {"contact.created"},
          payload \in {"show contacts"}, locationId \in LocationIds :
           AwaitProcessCommand("handleWebhook",
               BuiltCommand(webhookId,
                            [tag |-> "GHLWebhook", webhookId |-> webhookId,
                             eventType |-> eventType],
                            payload, locationId, eventType, 1))

\* processVoiceCommand(sessionId, callerId, transcript, locationId), up to
\* its await
ProcessVoiceCommand ==
    /\ phase = "running"
    /\ Len(processLog) + Len(pending) < MaxCommands
    /\ \E sessionId \in CallerIds, callerId \in {"+15550100"},
          transcript \in {"show contacts"}, locationId \in LocationIds :
           AwaitProcessCommand("processVoiceCommand",
               BuiltCommand(sessionId,
                            [tag |-> "GHLVoiceAgent", sessionId |-> sessionId,
                             callerId |-> callerId],
                            transcript, locationId, callerId, 2))

\* processChatCommand(conversationId, contactId, message, locationId), up to
\* its await
ProcessChatCommand ==
    /\ phase = "running"
    /\ Len(processLog) + Len(pending) < MaxCommands
    /\ \E conversationId \in CallerIds, contactId \in {"contact_1"},
          message \in ActorInstructions, locationId \in LocationIds :
           AwaitProcessCommand("processChatCommand",
               BuiltCommand(conversationId,
                            [tag |-> "GHLChatAgent",
                             conversationId |-> conversationId,
                             contactId |-> contactId],
                            message, locationId, contactId, 2))

\* processAdminCommand(userId, locationId, instruction), up to its await
ProcessAdminCommand ==
    /\ phase = "running"
    /\ Len(processLog) + Len(pending) < MaxCommands
    /\ \E userId \in CallerIds, locationId \in LocationIds,
          instruction \in {"show contacts"} :
           AwaitProcessCommand("processAdminCommand",
               BuiltCommand(userId,
                            [tag |-> "AdminInterface", userId |-> userId,
                             locationId |-> locationId],
                            instruction, locationId, userId, 3))

\* Time passes between two messages.
Tick ==
    /\ now < MaxTime
    /\ now' = now + 1
    /\ UNCHANGED <<commands, results, pending, processLog, upgradeVars,
                   pipelineVars, chatVars, serviceVars>>

\* An upgrade starts: preupgrade() runs, then the new instance starts with
\* its transient maps at their initial values.
Preupgrade ==
    /\ phase = "running"
    /\ pending = <<>>
    /\ beforeUpgrade.count < MaxUpgrades
    /\ \E order \in IterationOrders((DOMAIN commands) \cup (DOMAIN results)
                                          \cup (DOMAIN preferences)) :
           /\ commandHistory' = toArray(commands, order)
           /\ executionResults' = toArray(results, order)
           /\ userPreferences' = toArray(preferences, order)
    /\ beforeUpgrade' = [count |-> beforeUpgrade.count + 1,
                         commands |-> commands, results |-> results,
                         preferences |-> preferences]
    /\ commands' = <<>>
    /\ results' = <<>>
    /\ preferences' = <<>>
    /\ phase' = "upgrading"
    /\ UNCHANGED <<pending, now, processLog, pipelineVars, chatVars, serviceVars>>

\* The upgrade ends: postupgrade() runs.
Postupgrade ==
    /\ phase = "upgrading"
    /\ commands' = fromIter(commandHistory)
    /\ results' = fromIter(executionResults)
    /\ preferences' = fromIter(userPreferences)
    /\ commandHistory' = <<>>
    /\ executionResults' = <<>>
    /\ userPreferences' = <<>>
    /\ phase' = "running"
    /\ UNCHANGED <<pending, now, processLog, beforeUpgrade, pipelineVars, chatVars, serviceVars>>

----------------------------------------------------------------------------
(* ICPService (the frontend's client of the actor) and the application's   *)
(* processCommand.  A call of ICPService.processCommand is a record with   *)
(* the place it has reached (pc), the command it built, the command of the *)
(* attempt under way, the attempt number, the error caught last, what the  *)
(* call returned or threw, and the trace of what withRetry did.            *)

retryAttempts == 3

retryDelay == 1000

\* generateCommandId(): the clock and the random number decide.
ServiceCommandIds == {"cmd_1700000000000_k3x9", "cmd_1700000000000_p7q2"}

AppInstructions == {"show contacts"}

\* The messages of the errors an attempt can fail with; the first mentions
\* "network", which makes withRetry initialise the service again.
ErrorMessages == {"network error", "Call was rejected"}

MentionsConnection(message) == message = "network error"

Event(type, attempt, detail) ==
    [type |-> type, attempt |-> attempt, detail |-> detail]

\* handleResult(result, errorMessage)
handleResult(result, errorMessage) ==
    IF result.tag = "ok" THEN [tag |-> "return", value |-> result.value]
    ELSE IF result.tag = "err" THEN [tag |-> "throw", value |-> result.value]
    ELSE [tag |-> "throw", value |-> errorMessage]

\* The command ICPService.processCommand builds.
ServiceCommand(id, instruction, context) ==
    [id |-> id,
     source |-> [tag |-> "AdminInterface", userId |-> "web-user",
                 locationId |-> context.locationId],
     instruction |-> instruction,
     context |-> [locationId |-> context.locationId,
                  sourceMetadata |-> context.source,
                  priority |-> 1, retryCount |-> 0],
     timestamp |-> 0]

\* init(): the agent and the actor are created, or the attempt to do so
\* fails and leaves the actor as it was.
init(succeeds) ==
    /\ isInitialized' = succeeds
    /\ actorCreated' = (actorCreated \/ succeeds)

\* AgentAdamApp.processCommand(command, context), up to its await: the user
\* message and the typing indicator are shown and ICPService.processCommand
\* builds its command and enters withRetry.  Every call renders two
\* messages, the second when it settles.
AppProcessCommand ==
    /\ 2 * (Len(serviceCalls) + 1) <= MaxMessages
    /\ \E command \in AppInstructions, id \in ServiceCommandIds,
          initSucceeds \in BOOLEAN :
           /\ children' = withTypingIndicator(
                              withMessage(children, messageIdCounter + 1, "user",
                                          [quickReplies |-> <<>>]),
                              typingIndicatorId, "adam")
           /\ messageIdCounter' = messageIdCounter + 1
           /\ typingIndicatorId' = typingIndicatorElement("adam").id
           /\ issued' = Append(issued, [sender |-> "user",
                                        options |-> [quickReplies |-> <<>>]])
           /\ lastCall' = "showTypingIndicator"
           /\ IF isInitialized
              THEN UNCHANGED <<isInitialized, actorCreated>>
              ELSE init(initSucceeds)
           /\ serviceCalls' = Append(serviceCalls,
                  [command |-> ServiceCommand(id, command,
                                   [locationId |-> "default",
                                    source |-> "web-interface"]),
                   sent |-> none, attempt |-> 1, pc |-> "attempt",
                   error |-> NullText, outcome |-> none, trace |-> <<>>,
                   settled |-> FALSE])
    /\ UNCHANGED <<clearedAt, pipelineVars, actorVars>>

\* A step of call i that touches the service alone.
ServiceStep(i, call) ==
    /\ serviceCalls' = [serviceCalls EXCEPT ![i] = call]
    /\ UNCHANGED <<chatVars, pipelineVars, actorVars>>

\* Mutant: every attempt sends a command with an id of its own.
Sent_NewIdPerAttempt(call) ==
    [call.command EXCEPT !.id = @ \o "_" \o natToText(call.attempt)]

\* The command an attempt sends: the one built before withRetry.
Sent(call) == call.command

\* withRetry calls fn: actor.processCommand(command) sends the request, or
\* throws at once when there is no actor.
InvokeFn ==
    \E i \in 1..Len(serviceCalls) :
        LET call == serviceCalls[i]
            invoked == Append(call.trace, Event("invoke", call.attempt, Sent(call).id))
        IN  /\ call.pc = "attempt"
            /\ call.attempt <= retryAttempts
            /\ ServiceStep(i,
                   IF actorCreated
                   THEN [call EXCEPT !.pc = "inFlight", !.sent = some(Sent(call)),
                                     !.trace = invoked]
                   ELSE [call EXCEPT !.pc = "caught",
                                     !.error = "Cannot read properties of null",
                                     !.trace = Append(invoked,
                                         Event("fail", call.attempt,
                                               "Cannot read properties of null"))])
            /\ UNCHANGED <<isInitialized, actorCreated>>

\* The request of an attempt does not reach the actor.
RequestFails ==
    \E i \in 1..Len(serviceCalls), message \in ErrorMessages :
        LET call == serviceCalls[i]
        IN  /\ call.pc = "inFlight"
            /\ ServiceStep(i, [call EXCEPT !.pc = "caught", !.error = message,
                                   !.trace = Append(@, Event("fail", call.attempt, message))])
            /\ UNCHANGED <<isInitialized, actorCreated>>

\* The request of an attempt reaches the actor, which runs processCommand.
ActorRunsRequest ==
    \E i \in 1..Len(serviceCalls) :
        LET call == serviceCalls[i]
        IN  /\ call.pc = "inFlight"
            /\ phase = "running"
            /\ processCommand(call.sent.value)
            /\ serviceCalls' = [serviceCalls EXCEPT ![i] =
                   [call EXCEPT !.pc = "replying",
                                !.trace = Append(@, Event("delivered", call.attempt,
                                                         call.sent.value.id))]]
            /\ UNCHANGED <<pending, now, upgradeVars, isInitialized, actorCreated,
                           chatVars, pipelineVars>>

\* The reply of the actor arrives: fn returns what handleResult makes of it.
ReplyArrives ==
    \E i \in 1..Len(serviceCalls) :
        LET call == serviceCalls[i]
            reply == [tag |-> "ok", value |-> StubResult(call.sent.value)]
            handled == handleResult(reply, "Failed to process command")
        IN  /\ call.pc = "replying"
            /\ ServiceStep(i,
                   IF handled.tag = "return"
                   THEN [call EXCEPT !.pc = "returned", !.outcome = handled,
                                     !.trace = Append(@, Event("ok", call.attempt, ""))]
                   ELSE [call EXCEPT !.pc = "caught", !.error = handled.value,
                                     !.trace = Append(@, Event("fail", call.attempt,
                                                              handled.value))])
            /\ UNCHANGED <<isInitialized, actorCreated>>

\* The reply of the actor is lost on its way: the attempt fails.
ReplyLost ==
    \E i \in 1..Len(serviceCalls) :
        LET call == serviceCalls[i]
        IN  /\ call.pc = "replying"
            /\ ServiceStep(i, [call EXCEPT !.pc = "caught", !.error = "network error",
                                   !.trace = Append(@, Event("fail", call.attempt,
                                                            "network error"))])
            /\ UNCHANGED <<isInitialized, actorCreated>>

\* Mutant: the wait before the next attempt is retryDelay, whatever the attempt.
delayBeforeRetry_Fixed(attempt) == retryDelay

\* The wait before the attempt that follows a failed one.
delayBeforeRetry(attempt) == retryDelay * attempt

\* The catch block of withRetry after a failure that is not the last: the
\* wait, the new initialisation after a connection error, the next attempt.
Retry ==
    \E i \in 1..Len(serviceCalls), initSucceeds \in BOOLEAN :
        LET call == serviceCalls[i]
            waited == Append(call.trace,
                             Event("delay", call.attempt,
                                   natToText(delayBeforeRetry(call.attempt))))
        IN  /\ call.pc = "caught"
            /\ call.attempt < retryAttempts
            /\ IF MentionsConnection(call.error)
               THEN /\ init(initSucceeds)
                    /\ ServiceStep(i, [call EXCEPT !.pc = "attempt",
                                           !.attempt = @ + 1, !.sent = none,
                                           !.trace = Append(waited,
                                               Event("init", call.attempt, ""))])
               ELSE /\ initSucceeds
                    /\ UNCHANGED <<isInitialized, actorCreated>>
                    /\ ServiceStep(i, [call EXCEPT !.pc = "attempt",
                                           !.attempt = @ + 1, !.sent = none,
                                           !.trace = waited])

\* The last attempt failed: withRetry throws.
GiveUp ==
    \E i \in 1..Len(serviceCalls) :
        LET call == serviceCalls[i]
        IN  /\ call.pc = "caught"
            /\ call.attempt >= retryAttempts
            /\ ServiceStep(i, [call EXCEPT
                   !.pc = "thrown",
                   !.outcome = [tag |-> "throw",
                                value |-> "Failed after " \o natToText(retryAttempts)
                                              \o " attempts: " \o call.error]])
            /\ UNCHANGED <<isInitialized, actorCreated>>

\* The quick replies handleCommandResult shows with a result.
resultQuickReplies(result) ==
    IF Len(result.nextSteps) > 0
    THEN SubSeq(result.nextSteps, 1, IF Len(result.nextSteps) < 3
                                     THEN Len(result.nextSteps) ELSE 3)
    ELSE <<"Got it!", "What else can you do?">>

\* AgentAdamApp.processCommand after its await: the typing indicator is
\* hidden and the result, or the error, is shown.
AppSettles ==
    \E i \in 1..Len(serviceCalls) :
        LET call == serviceCalls[i]
            hidden == hideTypingIndicator(children, typingIndicatorId)
            sender == IF call.pc = "returned" THEN "adam" ELSE "system"
            options == IF call.pc = "returned"
                       THEN [quickReplies |-> resultQuickReplies(call.outcome.value)]
                       ELSE [quickReplies |-> <<>>]
        IN  /\ call.pc \in {"returned", "thrown"}
            /\ ~call.settled
            /\ children' = withMessage(hidden.children, messageIdCounter + 1,
                                       sender, options)
            /\ messageIdCounter' = messageIdCounter + 1
            /\ typingIndicatorId' = hidden.typingIndicatorId
            /\ issued' = Append(issued, [sender |-> sender, options |-> options])
            /\ lastCall' = "renderMessage"
            /\ serviceCalls' = [serviceCalls EXCEPT ![i].settled = TRUE]
            /\ UNCHANGED <<clearedAt, isInitialized, actorCreated, pipelineVars,
                           actorVars>>

Init ==
    /\ calls = <<>>
    /\ responses = <<>>
    /\ children = <<>>
    /\ messageIdCounter = 0
    /\ typingIndicatorId = NullText
    /\ issued = <<>>
    /\ clearedAt = 0
    /\ lastCall = "constructor"
    /\ commands = <<>>
    /\ results = <<>>
    /\ pending = <<>>
    /\ now = 0
    /\ processLog = <<>>
    /\ preferences = <<>>
    /\ commandHistory = <<>>
    /\ executionResults = <<>>
    /\ userPreferences = <<>>
    /\ phase = "running"
    /\ beforeUpgrade = [count |-> 0, commands |-> <<>>, results |-> <<>>,
                        preferences |-> <<>>]
    /\ isInitialized = FALSE
    /\ actorCreated = FALSE
    /\ serviceCalls = <<>>

\* One invocation of interpretCommand, on any instruction.
Next == InterpretCommand(Instructions)

Spec == Init /\ [][Next]_vars

\* Two invocations of interpretCommand, one after the other.
NextPair ==
    \/ InterpretCommand(PairInstructions)
    \/ InterpretCommandAgain(PairInstructions)

SpecPair == Init /\ [][NextPair]_vars

\* One invocation of the formatter.
NextFormat ==
    \/ FormatChatResponse
    \/ FormatVoiceResponse
    \/ GenerateWorkflowDecision

SpecFormat == Init /\ [][NextFormat]_vars

\* The calls on one Chat widget.
NextChat ==
    \/ RenderMessage
    \/ ClearMessages
    \/ ShowTypingIndicator
    \/ HideTypingIndicator

SpecChat == Init /\ [][NextChat]_vars

\* The messages of the AgentAdam actor.
NextActor ==
    \/ ProcessCommand
    \/ RunProcessCommand
    \/ HandleWebhook
    \/ ProcessVoiceCommand
    \/ ProcessChatCommand
    \/ ProcessAdminCommand
    \/ Tick
    \/ Preupgrade
    \/ Postupgrade

SpecActor == Init /\ [][NextActor]_vars

\* The application's processCommand calls, through ICPService, to the actor.
NextApp ==
    \/ AppProcessCommand
    \/ InvokeFn
    \/ RequestFails
    \/ ActorRunsRequest
    \/ ReplyArrives
    \/ ReplyLost
    \/ Retry
    \/ GiveUp
    \/ AppSettles

SpecApp == Init /\ [][NextApp]_vars

----------------------------------------------------------------------------
(* Vocabulary of the properties.                                           *)

KeywordsOf(c) == extractKeywords(c.instruction)

IntentFamilies ==
    <<createKeywords, updateKeywords, deleteKeywords, queryKeywords,
      automationKeywords>>

\* Some word of words is a keyword of family.
HasKeywordOf(words, family) ==
    \E i \in 1..Len(words) : \E k \in 1..Len(family) : family[k] = words[i]

\* The intent families, by position in IntentFamilies, with a keyword in words.
MatchingFamilies(words) ==
    { f \in 1..Len(IntentFamilies) : HasKeywordOf(words, IntentFamilies[f]) }

IntentTags == <<"Create", "Update", "Delete", "Query", "Automation">>

\* a <= b for rationals with positive denominators
RatLeq(a, b) == a.num * b.den <= b.num * a.den

\* 0.1 + 0.1 * n, as a rational
UnknownBound(n) == [num |-> 1 + n, den |-> 10]

GhlCount(c) ==
    Cardinality({ i \in 1..Len(c.interpretation.entities) :
                    c.interpretation.entities[i].entityType = "ghl_object" })

\* base + 0.1 * entities + 0.2 * (ghl objects / keywords), before any cap
UnclampedSum(c, words) ==
    LET w == Len(words)
        n == Len(c.interpretation.entities)
        b == IF c.interpretation.intent.tag = "Unknown" THEN 1 ELSE 6
    IN  IF w = 0 THEN [num |-> b + n, den |-> 10]
        ELSE [num |-> (b + n) * w + 2 * GhlCount(c), den |-> 10 * w]

One == [num |-> 1, den |-> 1]
OneTenth == [num |-> 1, den |-> 10]

\* The values of the entities, in order.
ValuesOf(entities) == [k \in 1..Len(entities) |-> entities[k].value]

\* The position of an entity type in the order of the three passes.
TypeRank(type) ==
    CASE type = "ghl_object" -> 1
      [] type = "time_reference" -> 2
      [] type = "number" -> 3

\* The number of entries of texts equal to text.
Occurrences(texts, text) ==
    Cardinality({ k \in 1..Len(texts) : texts[k] = text })

----------------------------------------------------------------------------
(* C1: an instruction whose keyword sequence contains a deletion keyword   *)
(* requires approval at every priority.  As stated it fails: a create or   *)
(* update keyword anywhere in the instruction is matched first.            *)
C1_DeletionKeywordRequiresApproval ==
    \A i \in 1..Len(calls) :
        HasKeywordOf(KeywordsOf(calls[i]), deleteKeywords)
            => calls[i].interpretation.requiresApproval = TRUE

(* C1, amended: an instruction whose keyword sequence contains a deletion  *)
(* keyword and no create or update keyword requires approval at every      *)
(* priority.                                                               *)
C1_DeletionWithoutEarlierFamilyRequiresApproval ==
    \A i \in 1..Len(calls) :
        LET words == KeywordsOf(calls[i])
        IN  (/\ HasKeywordOf(words, deleteKeywords)
             /\ ~HasKeywordOf(words, createKeywords)
             /\ ~HasKeywordOf(words, updateKeywords))
                => calls[i].interpretation.requiresApproval = TRUE

C1_Witness ==
    \E i \in 1..Len(calls) :
        LET words == KeywordsOf(calls[i])
        IN  /\ calls[i].context.priority = 0
            /\ calls[i].interpretation.requiresApproval = TRUE
            /\ HasKeywordOf(words, deleteKeywords)
            /\ HasKeywordOf(words, queryKeywords)
            /\ ~HasKeywordOf(words, createKeywords)
            /\ ~HasKeywordOf(words, updateKeywords)

(* C2: an instruction with no keyword of any intent family is Unknown and  *)
(* its confidence is at most 0.1 + 0.1 * (number of entities).  As stated  *)
(* it fails: a CRM object among the keywords adds the density term.        *)
C2_UnknownConfidenceBound ==
    \A i \in 1..Len(calls) :
        MatchingFamilies(KeywordsOf(calls[i])) = {}
            => /\ calls[i].interpretation.intent.tag = "Unknown"
               /\ RatLeq(calls[i].interpretation.confidence,
                         UnknownBound(Len(calls[i].interpretation.entities)))

(* C2, amended: such an instruction is Unknown and its confidence is at    *)
(* most 0.1 + 0.1 * entities + 0.2 * (ghl_object entities / keywords),     *)
(* the last term being 0 when there is no keyword.                         *)
C2_UnknownConfidenceBoundWithDensity ==
    \A i \in 1..Len(calls) :
        LET words == KeywordsOf(calls[i])
        IN  MatchingFamilies(words) = {}
                => /\ calls[i].interpretation.intent.tag = "Unknown"
                   /\ RatLeq(calls[i].interpretation.confidence,
                             UnclampedSum(calls[i], words))

C2_Witness ==
    \E i \in 1..Len(calls) :
        /\ calls[i].interpretation.intent.tag = "Unknown"
        /\ GhlCount(calls[i]) > 0
        /\ Len(calls[i].interpretation.entities) > GhlCount(calls[i])
        /\ MatchingFamilies(KeywordsOf(calls[i])) = {}

(* C3: "schedule an automation when a form is submitted" is an Automation  *)
(* with triggerType "form", conditions ["conditional"] and approval        *)
(* required.  As stated it fails: "schedule" is the first keyword in the   *)
(* trigger vocabulary.                                                     *)
C3_ScheduleAutomationForm ==
    \A i \in 1..Len(calls) :
        calls[i].instruction = scheduleAutomation
            => /\ calls[i].interpretation.intent =
                      [tag |-> "Automation", triggerType |-> <<"f","o","r","m">>,
                       conditions |-> <<<<"c","o","n","d","i","t","i","o","n","a","l">>>>]
               /\ calls[i].interpretation.requiresApproval = TRUE

(* C3, amended: the same instruction is an Automation with triggerType     *)
(* "schedule", conditions ["conditional"] and approval required.           *)
C3_ScheduleAutomationSchedule ==
    \A i \in 1..Len(calls) :
        calls[i].instruction = scheduleAutomation
            => /\ calls[i].interpretation.intent =
                      [tag |-> "Automation", triggerType |-> <<"s","c","h","e","d","u","l","e">>,
                       conditions |-> <<<<"c","o","n","d","i","t","i","o","n","a","l">>>>]
               /\ calls[i].interpretation.requiresApproval = TRUE

C3_Witness ==
    \E i \in 1..Len(calls) :
        /\ calls[i].instruction = scheduleAutomation
        /\ calls[i].interpretation.intent.tag = "Automation"

(* C4: the confidence of every interpretation lies in [0, 1]: it is never  *)
(* below 0.1 and it is exactly 1.0 whenever the unclamped sum exceeds 1.0. *)
C4_ConfidenceInUnitInterval ==
    \A i \in 1..Len(calls) :
        LET conf == calls[i].interpretation.confidence
        IN  /\ conf.den > 0
            /\ RatLeq(OneTenth, conf)
            /\ RatLeq(conf, One)
            /\ (~RatLeq(UnclampedSum(calls[i], KeywordsOf(calls[i])), One)
                    => conf.num = conf.den)

C4_Witness ==
    \E i \in 1..Len(calls) :
        /\ calls[i].interpretation.confidence.num
               = calls[i].interpretation.confidence.den
        /\ ~RatLeq(UnclampedSum(calls[i], KeywordsOf(calls[i])), One)

(* C5: a Delete or an Automation requires approval whatever its payload    *)
(* and the priority; "delete the opportunity" does at every priority.      *)
C5_DeleteAndAutomationAlwaysApproved ==
    \A i \in 1..Len(calls) :
        /\ calls[i].interpretation.intent.tag \in {"Delete", "Automation"}
               => calls[i].interpretation.requiresApproval = TRUE
        /\ calls[i].instruction = deleteOpportunity
               => /\ calls[i].interpretation.intent.tag = "Delete"
                  /\ calls[i].interpretation.requiresApproval = TRUE

C5_Witness ==
    \E i \in 1..Len(calls) :
        /\ calls[i].interpretation.intent.tag = "Automation"
        /\ calls[i].context.priority = 0
        /\ calls[i].interpretation.requiresApproval = TRUE

(* C6: a Create requires approval exactly when its objectType, the first   *)
(* CRM-object keyword or "unknown", is workflow, campaign or automation,   *)
(* whatever the priority; "create a new contact named Jane" at priority 1  *)
(* is Create{contact} without approval.                                    *)
C6_CreateApprovalByObjectType ==
    \A i \in 1..Len(calls) :
        LET c == calls[i]
            words == KeywordsOf(c)
            objects == { k \in 1..Len(words) :
                           \E e \in 1..Len(ghlEntities) : ghlEntities[e] = words[k] }
        IN  /\ c.interpretation.intent.tag = "Create"
                => /\ objects = {} => c.interpretation.intent.objectType = <<"u","n","k","n","o","w","n">>
                   /\ objects # {} =>
                          \E k \in objects :
                              /\ \A j \in objects : k <= j
                              /\ c.interpretation.intent.objectType = words[k]
                   /\ c.interpretation.requiresApproval
                          = (c.interpretation.intent.objectType
                                \in {<<"w","o","r","k","f","l","o","w">>, <<"c","a","m","p","a","i","g","n">>, <<"a","u","t","o","m","a","t","i","o","n">>})
            /\ (c.instruction = createContactJane /\ c.context.priority = 1)
                => /\ c.interpretation.intent
                          = [tag |-> "Create", objectType |-> <<"c","o","n","t","a","c","t">>]
                   /\ c.interpretation.requiresApproval = FALSE

C6_Witness ==
    \E i \in 1..Len(calls) :
        /\ calls[i].interpretation.intent.tag = "Create"
        /\ calls[i].interpretation.intent.objectType = <<"c","o","n","t","a","c","t">>
        /\ calls[i].context.priority >= ApprovalPriority
        /\ calls[i].interpretation.requiresApproval = FALSE

(* C7: an Update, a Query or an Unknown requires approval exactly when     *)
(* context.priority >= 3.                                                  *)
C7_PriorityRule ==
    \A i \in 1..Len(calls) :
        calls[i].interpretation.intent.tag \in {"Update", "Query", "Unknown"}
            => calls[i].interpretation.requiresApproval
                   = (calls[i].context.priority >= 3)

C7_Witness ==
    \E i \in 1..Len(calls) :
        /\ calls[i].interpretation.intent.tag = "Update"
        /\ calls[i].context.priority = 3
        /\ calls[i].interpretation.requiresApproval = TRUE

(* C8: two invocations with the same instruction and contexts of the same  *)
(* priority return the same interpretation, whatever the other context     *)
(* fields and whatever was invoked before.                                 *)
C8_SameInputsSameInterpretation ==
    \A i, j \in 1..Len(calls) :
        (/\ calls[i].instruction = calls[j].instruction
         /\ calls[i].context.priority = calls[j].context.priority)
            => calls[i].interpretation = calls[j].interpretation

C8_Witness ==
    /\ Len(calls) = 2
    /\ calls[1].instruction = calls[2].instruction
    /\ calls[1].context.priority = calls[2].context.priority
    /\ calls[1].context.locationId # calls[2].context.locationId
    /\ calls[1].context.sourceMetadata # calls[2].context.sourceMetadata
    /\ calls[1].context.retryCount # calls[2].context.retryCount
    /\ calls[1].interpretation.intent.tag = "Update"

(* C9: the intent is the variant of the first family, in the order Create, *)
(* Update, Delete, Query, Automation, that has a keyword in the keyword    *)
(* sequence, wherever the keywords stand; it is Unknown exactly when no    *)
(* family has one.                                                         *)
C9_FirstFamilyWins ==
    \A i \in 1..Len(calls) :
        LET matching == MatchingFamilies(KeywordsOf(calls[i]))
            tag == calls[i].interpretation.intent.tag
        IN  /\ tag \in {"Create", "Update", "Delete", "Query", "Automation", "Unknown"}
            /\ (tag = "Unknown") = (matching = {})
            /\ matching # {} =>
                   \E f \in matching :
                       /\ \A g \in matching : f <= g
                       /\ tag = IntentTags[f]

C9_Witness ==
    \E i \in 1..Len(calls) :
        LET words == KeywordsOf(calls[i])
        IN  /\ calls[i].interpretation.intent.tag = "Create"
            /\ Len(words) = 2
            /\ \E k \in 1..Len(deleteKeywords) : deleteKeywords[k] = words[1]
            /\ \E k \in 1..Len(createKeywords) : createKeywords[k] = words[2]

(* C10: formatChatResponse returns shouldClose = false for every           *)
(* ExecutionResult.                                                        *)
C10_ChatNeverCloses ==
    \A i \in 1..Len(responses) :
        responses[i].channel = "chat" => responses[i].response.shouldClose = FALSE

C10_Witness ==
    \E i \in 1..Len(responses) :
        /\ responses[i].channel = "chat"
        /\ responses[i].result.status.tag = "Completed"
        /\ responses[i].result.actions # <<>>
        /\ responses[i].response.shouldClose = FALSE

(* C11: formatVoiceResponse returns shouldEndCall = true exactly when the  *)
(* status is Failed, and for Failed{reason} the spokenText is the apology  *)
(* followed by the reason, whatever the insights.                          *)
C11_VoiceEndsCallOnFailure ==
    \A i \in 1..Len(responses) :
        responses[i].channel = "voice" =>
            /\ responses[i].response.shouldEndCall
                   = (responses[i].result.status.tag = "Failed")
            /\ responses[i].result.status.tag = "Failed" =>
                   responses[i].response.spokenText
                       = "I'm sorry, but I encountered an issue: "
                             \o responses[i].result.status.reason

C11_Witness ==
    \E i \in 1..Len(responses) :
        /\ responses[i].channel = "voice"
        /\ responses[i].result.status = [tag |-> "Failed", reason |-> "timeout"]
        /\ responses[i].result.insights # <<>>
        /\ responses[i].response.shouldEndCall = TRUE

(* C12: generateWorkflowDecision gives continue/next for Completed,        *)
(* stop/error for Failed and wait/pending for Pending, Processing and      *)
(* PartialSuccess.                                                         *)
C12_WorkflowDecisionByStatus ==
    \A i \in 1..Len(responses) :
        responses[i].channel = "workflow" =>
            LET tag == responses[i].result.status.tag
                d == <<responses[i].response.decision, responses[i].response.nextStep>>
            IN  /\ tag = "Completed" => d = <<"continue", "next">>
                /\ tag = "Failed" => d = <<"stop", "error">>
                /\ tag \in {"Pending", "Processing", "PartialSuccess"}
                       => d = <<"wait", "pending">>
                /\ tag \in {"Completed", "Failed", "Pending", "Processing",
                            "PartialSuccess"}

C12_Witness ==
    \E i \in 1..Len(responses) :
        /\ responses[i].channel = "workflow"
        /\ responses[i].result.status.tag = "PartialSuccess"
        /\ responses[i].response.decision = "wait"

(* C13: the chat message is the chat success template followed by the      *)
(* newline-joined insights when Completed (whatever separates the two),    *)
(* the chat error template followed by the reason when Failed, and the     *)
(* processing placeholder for every other status.  The code fails it for   *)
(* Completed: it puts a second check mark in front of the template.        *)
C13_ChatMessageByStatus ==
    \A i \in 1..Len(responses) :
        responses[i].channel = "chat" =>
            LET result == responses[i].result
                message == responses[i].response.message
            IN  /\ result.status.tag = "Completed" =>
                       \E sep \in {"", " ", "\n", "\n\n"} :
                           message = getSuccessTemplate("chat") \o sep
                                         \o join("\n", result.insights)
                /\ result.status.tag = "Failed" =>
                       message = getErrorTemplate("chat", result.status.reason)
                /\ result.status.tag \in {"Pending", "Processing", "PartialSuccess"}
                       => message = Hourglass \o " Processing your request..."

(* C19: for a status that is not Failed the spokenText is the first        *)
(* insight, or the completion sentence when there is no insight.  As       *)
(* stated it fails: Pending, Processing and PartialSuccess have their own  *)
(* sentences.                                                              *)
C19_SpokenTextIsFirstInsight ==
    \A i \in 1..Len(responses) :
        (responses[i].channel = "voice" /\ responses[i].result.status.tag # "Failed")
            => responses[i].response.spokenText
                   = IF responses[i].result.insights # <<>>
                     THEN responses[i].result.insights[1]
                     ELSE "I've completed your request successfully."

(* C19, amended: for a Completed status the spokenText is the first        *)
(* insight, or the completion sentence when there is no insight; for       *)
(* Processing it is the processing sentence and for Pending and            *)
(* PartialSuccess the being-handled sentence, whatever the insights.       *)
C19_SpokenTextByStatus ==
    \A i \in 1..Len(responses) :
        responses[i].channel = "voice" =>
            LET result == responses[i].result
                spoken == responses[i].response.spokenText
            IN  /\ result.status.tag = "Completed" =>
                       spoken = IF result.insights # <<>> THEN result.insights[1]
                                ELSE "I've completed your request successfully."
                /\ result.status.tag = "Processing" =>
                       spoken = "I'm currently processing your request. Please hold on."
                /\ result.status.tag \in {"Pending", "PartialSuccess"} =>
                       spoken = "Your request is being handled."

C19_Witness ==
    \E i \in 1..Len(responses) :
        /\ responses[i].channel = "voice"
        /\ responses[i].result.status.tag = "Processing"
        /\ responses[i].result.insights # <<>>
        /\ responses[i].response.spokenText # responses[i].result.insights[1]

(* C20: generateQuickReplies returns, in order, the nextSteps entries of   *)
(* fewer than 30 characters, and the three defaults when there is none;    *)
(* the result is never empty and never mixes the two.                      *)
C20_QuickReplies ==
    \A i \in 1..Len(responses) :
        responses[i].channel = "chat" =>
            LET nextSteps == responses[i].result.nextSteps
                short == SelectSeq(nextSteps, LAMBDA s : Len(s) < 30)
                replies == responses[i].response.quickReplies
            IN  /\ replies # <<>>
                /\ short # <<>> => replies = short
                /\ short = <<>> => replies = <<"Got it!", "Tell me more", "What's next?">>

C20_Witness ==
    \E i \in 1..Len(responses) :
        /\ responses[i].channel = "chat"
        /\ Len(responses[i].result.nextSteps) = 2
        /\ Len(responses[i].result.nextSteps[1]) = 30
        /\ Len(responses[i].result.nextSteps[2]) = 29
        /\ responses[i].response.quickReplies = <<responses[i].result.nextSteps[2]>>

\* The renderMessage calls made since the last clearMessages.
IssuedSinceClear == SubSeq(issued, clearedAt + 1, Len(issued))

\* The children of the container other than the typing indicator.
NonIndicatorChildren ==
    SelectSeq(children, LAMBDA e : e.id # typingIndicatorElement("adam").id)

(* C14: when the renderMessage calls since the last clearMessages carry no *)
(* quick replies, the container holds one child per such call, in order,   *)
(* with the class message-<sender> of its call (a typing indicator         *)
(* aside); right after clearMessages the container is empty, the message   *)
(* id counter is 0 and no typing indicator is tracked.                     *)
C14_ContainerHoldsIssuedMessages ==
    /\ (\A k \in 1..Len(IssuedSinceClear) :
            IssuedSinceClear[k].options.quickReplies = <<>>)
           => /\ Len(NonIndicatorChildren) = Len(IssuedSinceClear)
              /\ \A k \in 1..Len(IssuedSinceClear) :
                     NonIndicatorChildren[k].className
                         = "message message-" \o IssuedSinceClear[k].sender
              /\ typingIndicatorId = NullText => children = NonIndicatorChildren
    /\ lastCall = "clearMessages"
           => /\ children = <<>>
              /\ messageIdCounter = 0
              /\ typingIndicatorId = NullText

C14_Witness ==
    /\ clearedAt = 1
    /\ lastCall = "renderMessage"
    /\ Len(IssuedSinceClear) = 2
    /\ IssuedSinceClear[1].sender = "user"
    /\ IssuedSinceClear[2].sender = "system"
    /\ \A k \in 1..2 : IssuedSinceClear[k].options.quickReplies = <<>>
    /\ Len(children) = 2
    /\ messageIdCounter = 2

\* The ids of the commands that processCommand has run on.
ProcessedIds == { processLog[k].command.id : k \in 1..Len(processLog) }

\* The command of the last run of processCommand on the id.
LastProcessed(id) ==
    LET runs == { k \in 1..Len(processLog) : processLog[k].command.id = id }
        last == CHOOSE k \in runs : \A j \in runs : j <= k
    IN  processLog[last].command

(* C15: getTotalCommands is 0 before any command is processed and is the   *)
(* number of distinct command ids processed so far, whichever entry point  *)
(* they came through; a command whose id is already stored replaces the    *)
(* stored one and leaves the count as it was.  The query is answered when *)
(* the actor runs, not between the two hooks of an upgrade.                *)
C15_TotalIsDistinctProcessedIds ==
    phase = "running" =>
        /\ getTotalCommands = Cardinality(ProcessedIds)
        /\ processLog = <<>> => getTotalCommands = 0
        /\ DOMAIN commands = ProcessedIds
        /\ \A id \in ProcessedIds : commands[id] = LastProcessed(id)

C15_Witness ==
    /\ phase = "running"
    /\ Len(processLog) = 3
    /\ getTotalCommands = 2
    /\ \E j, k \in 1..3 :
           /\ j < k
           /\ processLog[j].command.id = processLog[k].command.id
           /\ processLog[j].command # processLog[k].command
           /\ processLog[k].command.source.tag = "GHLChatAgent"

C17_ConditionsOncePerCategory ==
    \A i \in 1..Len(calls) :
        calls[i].interpretation.intent.tag = "Automation" =>
            LET conditions == calls[i].interpretation.intent.conditions
            IN  /\ Occurrences(conditions, <<"c","o","n","d","i","t","i","o","n","a","l">>) <= 1
                /\ Occurrences(conditions, <<"t","e","m","p","o","r","a","l">>) <= 1
                /\ Len(conditions) <= 2

(* C18: the confidence is min(1.0, base + 0.1 * entities + d), base 0.1    *)
(* for Unknown and 0.6 otherwise, d = 0.2 * (ghl_object entities /         *)
(* keywords) when there is a keyword and 0 when there is none.             *)
C18_ConfidenceFormula ==
    \A i \in 1..Len(calls) :
        LET conf == calls[i].interpretation.confidence
            sum == UnclampedSum(calls[i], KeywordsOf(calls[i]))
        IN  IF sum.num > sum.den
            THEN conf.num = conf.den
            ELSE conf.num * sum.den = sum.num * conf.den

C18_Witness ==
    \E i \in 1..Len(calls) :
        /\ calls[i].interpretation.intent.tag = "Unknown"
        /\ GhlCount(calls[i]) = 1
        /\ Len(calls[i].interpretation.entities) = 2
        /\ Len(KeywordsOf(calls[i])) = 2
        /\ calls[i].interpretation.confidence.num * 10
               = 4 * calls[i].interpretation.confidence.den

\* The decimal text of the durations explored.
DecimalText(n) == CASE n = 0 -> "0" [] n = 100 -> "100"

\* The workflow decisions among the responses.
WorkflowResponses ==
    { k \in 1..Len(responses) : responses[k].channel = "workflow" }

\* The variables of a decision are the three pairs of a completed result,
\* the command id under the given key.
CompletedVariables(r, commandIdKey) ==
    r.response.variables
        = << <<"execution_status", "completed">>,
             <<commandIdKey, r.result.commandId>>,
             <<"duration", DecimalText(r.result.duration)>> >>

(* C21: the variables of a workflow decision are, when the status is       *)
(* Completed, the pairs with keys execution_status, commandId and          *)
(* duration, and the empty sequence otherwise.  As stated it fails: the    *)
(* key of the command id is command_id.                                    *)
C21_WorkflowVariablesKeyCommandId ==
    \A k \in WorkflowResponses :
        IF responses[k].result.status.tag = "Completed"
        THEN CompletedVariables(responses[k], "commandId")
        ELSE responses[k].response.variables = <<>>

(* C21, amended: the variables of a workflow decision are, when the status *)
(* is Completed, the pairs with keys execution_status, command_id and      *)
(* duration, in this order, the duration as the decimal text of            *)
(* result.duration and command_id as result.commandId; they are the empty  *)
(* sequence for every other status.                                        *)
C21_WorkflowVariablesByStatus ==
    \A k \in WorkflowResponses :
        IF responses[k].result.status.tag = "Completed"
        THEN CompletedVariables(responses[k], "command_id")
        ELSE responses[k].response.variables = <<>>

C21_Witness ==
    \E k \in WorkflowResponses :
        /\ responses[k].result.status.tag = "Completed"
        /\ responses[k].result.duration = 100
        /\ Len(responses[k].response.variables) = 3
        /\ responses[k].response.variables[3][2] = "100"

\* The fields of a text between its spaces, by the positions of the spaces.
SpaceFields(t) ==
    LET spaces == SelectSeq([i \in 1..Len(t) |-> i], LAMBDA i : t[i] = " ")
        cuts == <<0>> \o spaces \o <<Len(t) + 1>>
    IN  [n \in 1..(Len(cuts) - 1) |-> SubSeq(t, cuts[n] + 1, cuts[n + 1] - 1)]

IsUpperCase(ch) == \E i \in 1..Len(UpperCase) : UpperCase[i] = ch

(* C22: extractKeywords returns the space-separated tokens of the          *)
(* lower-cased instruction that are longer than 2 and are no stop words,   *)
(* in their order and with their repetitions; every token returned is in   *)
(* lower case; an instruction without such a token yields none.            *)
C22_KeywordsAreFilteredTokens ==
    \A i \in 1..Len(calls) :
        LET words == KeywordsOf(calls[i])
            tokens == SpaceFields(toLowercase(calls[i].instruction))
            Kept(w) == Len(w) > 2 /\ ~HasKeywordOf(<<w>>, stopWords)
            kept == SelectSeq(tokens, Kept)
        IN  /\ words = kept
            /\ \A k \in 1..Len(words) :
                   \A j \in 1..Len(words[k]) : ~IsUpperCase(words[k][j])
            /\ kept = <<>> => words = <<>>

C22_Witness ==
    \E i \in 1..Len(calls) :
        /\ calls[i].instruction = <<"S","h","o","w"," ","T","H","E"," ","c","o","n","t","a","c","t"," ","C","o","n","t","a","c","t">>
        /\ KeywordsOf(calls[i]) = <<<<"s","h","o","w">>, <<"c","o","n","t","a","c","t">>, <<"c","o","n","t","a","c","t">>>>

\* The lower-cased text has "id:" somewhere.
HasIdPattern(t) ==
    \E i \in 1..(Len(t) - 2) :
        /\ t[i] \in {"i", "I"}
        /\ t[i + 1] \in {"d", "D"}
        /\ t[i + 2] = ":"

HasQuote(t) == \E i \in 1..Len(t) : t[i] = "\""

(* C23: the identifier of an Update or Delete is "quoted_identifier" when  *)
(* the instruction contains a double quote (even with "id:" in it),        *)
(* otherwise "extracted_id" when the lower-cased instruction contains      *)
(* "id:", otherwise "auto_detected".                                       *)
C23_IdentifierByPattern ==
    \A i \in 1..Len(calls) :
        LET intent == calls[i].interpretation.intent
            text == calls[i].instruction
        IN  intent.tag \in {"Update", "Delete"} =>
                intent.identifier =
                    IF HasQuote(text) THEN <<"q","u","o","t","e","d","_","i","d","e","n","t","i","f","i","e","r">>
                    ELSE IF HasIdPattern(text) THEN <<"e","x","t","r","a","c","t","e","d","_","i","d">>
                    ELSE <<"a","u","t","o","_","d","e","t","e","c","t","e","d">>

C23_Witness ==
    \E i \in 1..Len(calls) :
        /\ calls[i].interpretation.intent.tag = "Delete"
        /\ HasQuote(calls[i].instruction)
        /\ HasIdPattern(calls[i].instruction)
        /\ calls[i].interpretation.intent.identifier = <<"q","u","o","t","e","d","_","i","d","e","n","t","i","f","i","e","r">>

(* C25: no interpretation contains an entity of type "number": every       *)
(* entity is a ghl_object or a time_reference, because the number literals *)
(* are too short to be keywords.                                           *)
C25_NoNumberEntity ==
    \A i \in 1..Len(calls) :
        LET words == KeywordsOf(calls[i])
            entities == calls[i].interpretation.entities
        IN  /\ \A k \in 1..Len(entities) :
                   entities[k].entityType \in {"ghl_object", "time_reference"}
            /\ \A k \in 1..Len(numberWords) : Len(numberWords[k]) <= 2
            /\ ~HasKeywordOf(words, numberWords)

C25_Witness ==
    \E i \in 1..Len(calls) :
        /\ calls[i].instruction = <<"c","o","n","t","a","c","t"," ","1","0">>
        /\ Len(calls[i].interpretation.entities) = 1
        /\ calls[i].interpretation.entities[1].entityType = "ghl_object"

(* C24: processCommand never returns an error: every run returns ok with   *)
(* a result whose commandId is the command's id, whose status is Completed *)
(* and whose actions are empty, and getExecutionResult(id) returns that    *)
(* result afterwards.                                                      *)
C24_StubAlwaysCompletes ==
    \A k \in 1..Len(processLog) :
        LET cmd == processLog[k].command
            reply == processLog[k].reply
        IN  /\ reply.tag = "ok"
            /\ reply.value.commandId = cmd.id
            /\ reply.value.status = [tag |-> "Completed"]
            /\ reply.value.actions = <<>>
            /\ phase = "running" => getExecutionResult(cmd.id) = some(reply.value)

C24_Witness ==
    /\ phase = "running"
    /\ Len(processLog) = 2
    /\ processLog[1].command.id # processLog[2].command.id
    /\ processLog[1].command.source.tag = "GHLWebhook"
    /\ getExecutionResult(processLog[1].command.id) = some(processLog[1].reply.value)
    /\ getExecutionResult("cmd_1") = none

(* C26: in every reachable state of the actor, whatever the interleaving   *)
(* of processCommand and the four handlers that await it, the commands map *)
(* and the results map have the same keys and every stored result has the  *)
(* commandId of its key.                                                   *)
C26_CommandsAndResultsAgree ==
    /\ DOMAIN commands = DOMAIN results
    /\ \A id \in DOMAIN results : results[id].commandId = id
    /\ \A id \in DOMAIN commands : commands[id].id = id

C26_Witness ==
    /\ size(commands) = 2
    /\ Len(pending) = 1
    /\ \E id \in DOMAIN commands : commands[id].source.tag = "GHLVoiceAgent"
    /\ \E id \in DOMAIN commands : id \in CommandIds
    /\ Head(pending).handler = "processAdminCommand"

(* C30: an upgrade is a round trip: after preupgrade and postupgrade the   *)
(* commands, results and preferences maps hold the pairs they held before  *)
(* preupgrade, so that getTotalCommands and getExecutionResult answer as   *)
(* before, and the three stable arrays are empty again.                    *)
C30_UpgradeRoundTrip ==
    [][(phase = "upgrading" /\ phase' = "running")
           => /\ commands' = beforeUpgrade.commands
              /\ results' = beforeUpgrade.results
              /\ preferences' = beforeUpgrade.preferences
              /\ size(commands') = size(beforeUpgrade.commands)
              /\ \A id \in DOMAIN beforeUpgrade.results :
                     get(results', id) = some(beforeUpgrade.results[id])
              /\ commandHistory' = <<>>
              /\ executionResults' = <<>>
              /\ userPreferences' = <<>>]_vars

C30_Witness ==
    /\ phase = "running"
    /\ beforeUpgrade.count = 1
    /\ size(beforeUpgrade.commands) = 2
    /\ commands = beforeUpgrade.commands
    /\ results = beforeUpgrade.results
    /\ commandHistory = <<>>

\* The positions of the events of a type in the trace of a call.
EventsOf(call, type) ==
    { k \in 1..Len(call.trace) : call.trace[k].type = type }

\* The decimal text of the wait after a failed attempt.
WaitText(attempt) == CASE attempt = 1 -> "1000" [] attempt = 2 -> "2000"

(* C27: withRetry invokes fn at most 3 times, one invocation after the     *)
(* other; it returns the value of the first invocation that succeeds and   *)
(* invokes nothing after it; it throws "Failed after 3 attempts: ..." if   *)
(* and only if the three invocations fail; it waits retryDelay * attempt   *)
(* after the failed attempts 1 and 2 and does not wait after the last.     *)
C27_WithRetry ==
    \A i \in 1..Len(serviceCalls) :
        LET call == serviceCalls[i]
            trace == call.trace
            invokes == EventsOf(call, "invoke")
            settles == EventsOf(call, "ok") \cup EventsOf(call, "fail")
        IN  /\ Cardinality(invokes) <= 3
            /\ \A j, k \in invokes :
                   j < k => \E m \in settles : j < m /\ m < k
            /\ \A k \in EventsOf(call, "ok") :
                   /\ \A m \in invokes : m < k
                   /\ call.pc = "returned"
            /\ call.pc = "returned"
                   => /\ Cardinality(EventsOf(call, "ok")) = 1
                      /\ call.outcome = [tag |-> "return",
                                         value |-> StubResult(call.command)]
            /\ call.pc = "thrown"
                   => /\ Cardinality(EventsOf(call, "fail")) = 3
                      /\ EventsOf(call, "ok") = {}
                      /\ call.outcome =
                             [tag |-> "throw",
                              value |-> "Failed after 3 attempts: "
                                            \o trace[Len(trace)].detail]
            /\ Cardinality(EventsOf(call, "fail")) = 3
                   => call.pc \in {"caught", "thrown"}
            /\ \A k \in EventsOf(call, "fail") :
                   IF trace[k].attempt < 3
                   THEN k < Len(trace) =>
                            trace[k + 1] = Event("delay", trace[k].attempt,
                                                 WaitText(trace[k].attempt))
                   ELSE k = Len(trace)
            /\ \A k \in EventsOf(call, "delay") : trace[k - 1].type = "fail"

C27_Witness ==
    \E i \in 1..Len(serviceCalls) :
        LET call == serviceCalls[i]
        IN  /\ call.pc = "returned"
            /\ call.attempt = 3
            /\ Cardinality(EventsOf(call, "invoke")) = 3
            /\ Cardinality(EventsOf(call, "delay")) = 2
            /\ \E j \in 1..Len(serviceCalls) : serviceCalls[j].pc = "thrown"

\* The ids of the commands of a call that reached the actor.
DeliveredIds(call) ==
    { call.trace[k].detail : k \in EventsOf(call, "delivered") }

(* C28: a call of ICPService.processCommand sends the same command id in   *)
(* every attempt; however many attempts reach the actor, lost replies      *)
(* included, the commands map gains at most one entry for the call.        *)
C28_RetriesShareOneCommandId ==
    /\ \A i \in 1..Len(serviceCalls) :
           LET call == serviceCalls[i]
           IN  /\ \A k \in EventsOf(call, "invoke") \cup EventsOf(call, "delivered") :
                      call.trace[k].detail = call.command.id
               /\ Cardinality(DeliveredIds(call)) <= 1
    /\ phase = "running" =>
           /\ DOMAIN commands
                  = UNION { DeliveredIds(serviceCalls[i]) : i \in 1..Len(serviceCalls) }
           /\ getTotalCommands
                  <= Cardinality({ i \in 1..Len(serviceCalls) :
                                       DeliveredIds(serviceCalls[i]) # {} })

C28_Witness ==
    /\ Len(serviceCalls) = 1
    /\ Cardinality(EventsOf(serviceCalls[1], "delivered")) = 3
    /\ serviceCalls[1].pc = "thrown"
    /\ Len(processLog) = 3
    /\ getTotalCommands = 1

\* The typing indicators among the children of the container.
TypingIndicators ==
    { k \in 1..Len(children) : children[k].id = typingIndicatorElement("adam").id }

(* C29: whatever the interleaving of overlapping processCommand calls of   *)
(* the application, the chat shows at most one typing indicator, and once  *)
(* every call has settled, with a result or with an error, no typing       *)
(* indicator is left and typingIndicatorId is null.                        *)
C29_OneTypingIndicator ==
    /\ Cardinality(TypingIndicators) <= 1
    /\ (\A i \in 1..Len(serviceCalls) : serviceCalls[i].settled)
           => /\ TypingIndicators = {}
              /\ typingIndicatorId = NullText

C29_Witness ==
    /\ Len(serviceCalls) = 2
    /\ \A i \in 1..2 : serviceCalls[i].settled
    /\ serviceCalls[1].pc = "thrown"
    /\ serviceCalls[2].pc = "returned"
    /\ children[1].className = "message message-user"
    /\ children[2].className = "message message-user"
    /\ TypingIndicators = {}

=============================================================================
